---- MODULE Spec2Model ----
(***************************************************************************)
(* The actor runtime contract of fvm-utils and its two implementations:    *)
(*   - FvmRuntime (runtime/src/runtime/fvm.rs), the production adapter,    *)
(*     driven by the entry trampoline;                                     *)
(*   - MockRuntime (runtime/src/test_utils.rs), the test double, driven by *)
(*     a test through call / call_fn.                                      *)
(* A behaviour exercises one of the two (impl, fixed by Init).  A method   *)
(* body or a transaction closure is an arbitrary sequence of runtime       *)
(* operations; every operation is one action, except the ones that run     *)
(* caller code (trampoline, call, call_fn, transaction), which are an      *)
(* entry action, the inner operations, and an exit action that holds the   *)
(* whole tail of the function.                                             *)
(*                                                                         *)
(* Host syscalls whose failure is not decided by code of this repository   *)
(* (sself::root, sself::set_root, put_cbor, self_destruct, put_block)      *)
(* succeed; the host outcomes the code branches on (send, create_actor,    *)
(* params_raw, get_cbor, the caller's code lookup) are inputs.             *)
(***************************************************************************)
EXTENDS Integers, Sequences, FiniteSets, TLC

VARIABLES
    impl,              \* "fvm" | "mock": the implementation under execution
    phase,             \* position of the driver (trampoline or test)
    stack,             \* frames of caller code now running: method body, closures
    caller_validated,  \* FvmRuntime.caller_validated
    in_transaction,    \* FvmRuntime.in_transaction / MockRuntime.in_transaction
    root,              \* the actor's state root held by the host (fvm::sself::root)
    store,             \* the blobs of the blockstore (ActorBlockstore / MemoryBlockstore)
    msg,               \* the message: caller address and what the host resolves for it
    in_call,           \* MockRuntime.in_call
    state,             \* MockRuntime.state : Option<Cid>
    balance,           \* MockRuntime.balance
    expectations,      \* MockRuntime.expectations
    new_actor_addr,    \* MockRuntime.new_actor_addr : Option<Address>
    last,              \* the outcome of the last operation that returned (or panicked)
    pre,               \* history: the runtime's fields just before that operation
    exit               \* how the trampoline invocation ended

vars == << impl, phase, stack, caller_validated, in_transaction, root, store, msg,
           in_call, state, balance, expectations, new_actor_addr, last, pre, exit >>

fvmVars  == << caller_validated, root >>
mockVars == << in_call, state, balance, expectations, new_actor_addr >>

----------------------------------------------------------------------------
(* Bounds of the model *)

MaxState == 1     \* actor state values are 0..MaxState
MaxDepth == 2     \* transaction closures nested on the stack
MaxRet == 1       \* return values are 0..MaxRet; 0 is the empty return
MaxBalance == 2   \* balances and transfer values are 0..MaxBalance
MaxExpect == 1    \* expectations of all kinds registered at a time
MaxSends == 2     \* expected sends queued when nothing else is registered
MaxValidations == 2   \* validation expectations when nothing else is registered
MaxQueue == 2     \* gas charges and signature checks queued, nothing else registered

----------------------------------------------------------------------------
(* Exit codes (fvm_shared::error::ExitCode) and syscall error numbers      *)
(* (fvm_shared::error::ErrorNumber) the code names.                        *)

OK == 0
SYS_SENDER_STATE_INVALID == 2
SYS_ILLEGAL_INSTRUCTION == 4
SYS_ILLEGAL_EXIT_CODE == 9
SYS_MISSING_RETURN == 11
FIRST_USER_EXIT_CODE == 16
USR_ILLEGAL_ARGUMENT == 16
USR_FORBIDDEN == 18
USR_INSUFFICIENT_FUNDS == 19
USR_ILLEGAL_STATE == 20
USR_SERIALIZATION == 21
USR_UNHANDLED_MESSAGE == 22
USR_UNSPECIFIED == 23
USR_ASSERTION_FAILED == 24
MaxExitCode == 26

ErrIllegalArgument == 1
ErrLimitExceeded == 3
ErrInsufficientFunds == 5
ErrNotFound == 6
MaxErrorNumber == 12

ExitCodes == 0..MaxExitCode
ErrorNumbers == 1..MaxErrorNumber

is_success(c) == c = OK
is_system_error(c) == c < FIRST_USER_EXIT_CODE

StateVals == 0..MaxState
\* Addresses, builtin actor types, method numbers and params are only ever compared
\* for equality: two of each give a match and a mismatch.
Addrs == {1, 2}
Types == {1, 2}
Methods == {1, 2}
Params == {0, 1}
\* A code identifier that is no builtin actor's.
NotBuiltin == Cardinality(Types) + 1
Rets == 0..MaxRet
Amounts == 0..MaxBalance

\* The error codes a method body or a closure returns of its own accord.
BodyErrCodes == {USR_FORBIDDEN, USR_ILLEGAL_STATE, USR_ASSERTION_FAILED}

----------------------------------------------------------------------------
(* The content-addressed store.  A state value v is serialised to the blob *)
(* to_vec(v); the empty array has its own blob, which no state value       *)
(* serialises to and which does not decode as a state.                     *)

EMPTY_ARR_BYTES == 0
to_vec(v) == v + 1
CanDecode(bytes) == bytes # EMPTY_ARR_BYTES
from_slice(bytes) == bytes - 1

CidOf(bytes) == [codec |-> "dag-cbor", digest |-> bytes]
EMPTY_ARR_CID == CidOf(EMPTY_ARR_BYTES)
None == [codec |-> "none", digest |-> 0]
\* Option<T> as a record like a Cid's: None, or Some(n).
Some(n) == [codec |-> "some", digest |-> n]

\* Blockstore::get: Some(bytes) when a blob with this identifier was put.
Has(s, cid) == \E b \in s : CidOf(b) = cid
Get(s, cid) == CHOOSE b \in s : CidOf(b) = cid
PutCborDropped(s, v) == s

\* put_cbor: serialise, store, return the identifier.
PutCbor(s, v) == s \cup {to_vec(v)}
CborCid(v) == CidOf(to_vec(v))

----------------------------------------------------------------------------
(* Results and frames *)

\* A frame of a method body also holds the method number once invoke_method
\* dispatched on it (0: a body of any operations), and, as history, the number of
\* validations that returned Ok in the invocation and the balance call began with.
NoFrame == [kind |-> "none", st |-> 0, state_cid |-> None, entry |-> None,
            method |-> 0, validated |-> 0, balance |-> 0]
Frame(k, v, c, e) == [kind |-> k, st |-> v, state_cid |-> c, entry |-> e,
                      method |-> 0, validated |-> 0, balance |-> 0]

\* op: the operation; kind: "ok" | "err" | "panic"; code: the ActorError's exit
\* code; ret: the value returned; sys: the host or store calls it issued; arg: its
\* input (the host's outcome, the closure's result); frame: the frame it closed.
Res(op, kind, code, ret, sys, arg, frame) ==
    [op |-> op, kind |-> kind, code |-> code, ret |-> ret, sys |-> sys,
     arg |-> arg, frame |-> frame]

\* tag: which outcome; n: its code or value; data: return data
NoArg == [tag |-> "none", n |-> 0, data |-> 0]
Arg(t, n, d) == [tag |-> t, n |-> n, data |-> d]

NoRes == Res("none", "none", 0, 0, {}, NoArg, NoFrame)

Snap == [caller_validated |-> caller_validated, in_transaction |-> in_transaction,
         root |-> root, in_call |-> in_call, state |-> state, balance |-> balance,
         expectations |-> expectations, new_actor_addr |-> new_actor_addr,
         depth |-> Len(stack)]

NoExit == [kind |-> "none", code |-> 0, msg |-> "", block |-> "none"]

Top == stack[Len(stack)]
Pop == SubSeq(stack, 1, Len(stack) - 1)
InClosure == Len(stack) > 0 /\ Top.kind = "closure"

\* An operation that returns: its result and the fields before it are recorded.
Returns(r) == last' = r /\ pre' = Snap

OkR(op, ret, sys, arg) == Res(op, "ok", OK, ret, sys, arg, NoFrame)
ErrR(op, code, sys, arg) == Res(op, "err", code, 0, sys, arg, NoFrame)
PanicR(op, sys, arg) == Res(op, "panic", 0, 0, sys, arg, NoFrame)
\* Entering a function that runs caller code (a closure, a method body).
EnterR(op, sys) == Res(op, "enter", OK, 0, sys, NoArg, NoFrame)

\* What a closure or a method body returns: Ok(r) or Err(code).
BodyResults == {Arg("ok", r, 0) : r \in Rets} \cup {Arg("err", c, 0) : c \in BodyErrCodes}

----------------------------------------------------------------------------
(* FvmRuntime: runtime/src/runtime/fvm.rs *)

FvmRunning == impl = "fvm" /\ phase = "invoke"

Abort(code, m) == [kind |-> "abort", code |-> code, msg |-> m, block |-> "none"]

PanicHookUnspecified == Abort(USR_UNSPECIFIED, "panic")

\* std::panic::set_hook: a panic ends the invocation, fvm::vm::abort(USR_ASSERTION_FAILED).
PanicHook == Abort(USR_ASSERTION_FAILED, "panic")

FvmPanics(r) ==
    /\ Returns(r)
    /\ phase' = "done"
    /\ exit' = PanicHook
    /\ UNCHANGED << impl, stack, caller_validated, in_transaction, root, store, msg, mockVars >>

\* An operation that returns r and changes no field of the runtime.
FvmReturns(r) ==
    /\ Returns(r)
    /\ UNCHANGED << impl, phase, stack, caller_validated, in_transaction, root, store, msg,
                    mockVars, exit >>

assert_not_validated_skipped == "ok"

\* Err when the caller was validated already.
assert_not_validated == IF caller_validated THEN "err" ELSE "ok"

FvmValidateSetsFlag(op, accepted, a) ==
    IF assert_not_validated = "err"
    THEN FvmReturns(ErrR(op, USR_ASSERTION_FAILED, {}, a))
    ELSE /\ caller_validated' = TRUE
         /\ Returns(IF accepted THEN OkR(op, 0, {}, a) ELSE ErrR(op, USR_FORBIDDEN, {}, a))
         /\ UNCHANGED << impl, phase, stack, in_transaction, root, store, msg,
                         mockVars, exit >>

\* A validation called with the list a: sets the flag and returns Ok when
\* `accepted`, returns forbidden otherwise.
FvmValidate(op, accepted, a) ==
    IF assert_not_validated = "err"
    THEN FvmReturns(ErrR(op, USR_ASSERTION_FAILED, {}, a))
    ELSE IF accepted
         THEN /\ caller_validated' = TRUE
              /\ Returns(OkR(op, 0, {}, a))
              /\ UNCHANGED << impl, phase, stack, in_transaction, root, store, msg,
                              mockVars, exit >>
         ELSE FvmReturns(ErrR(op, USR_FORBIDDEN, {}, a))

FvmValidateAcceptAny ==
    /\ FvmRunning
    /\ FvmValidate("validate_immediate_caller_accept_any", TRUE, NoArg)

FvmValidateIsAnyone ==
    /\ FvmRunning
    /\ \E addresses \in SUBSET Addrs :
          FvmValidate("validate_immediate_caller_is", TRUE, Arg("list", 0, addresses))

FvmValidatesIsAnyone(addresses) ==
    /\ FvmRunning
    /\ FvmValidate("validate_immediate_caller_is", TRUE, Arg("list", 0, addresses))

\* validate_immediate_caller_is(addresses)
FvmValidatesIs(addresses) ==
    /\ FvmRunning
    /\ FvmValidate("validate_immediate_caller_is", msg.caller \in addresses,
                   Arg("list", 0, addresses))

FvmValidateIs == \E addresses \in SUBSET Addrs : FvmValidatesIs(addresses)

\* msg.code: 0 when get_actor_code_cid finds nothing, a builtin type's code
\* otherwise, or NotBuiltin.
resolve_builtin_actor_type(code) == IF code \in Types THEN code ELSE 0

FvmValidateType ==
    /\ FvmRunning
    /\ \E types \in SUBSET Types :
          IF assert_not_validated = "err"
          THEN FvmReturns(ErrR("validate_immediate_caller_type", USR_ASSERTION_FAILED,
                               {}, Arg("list", 0, types)))
          ELSE IF msg.code = 0
               THEN FvmPanics(PanicR("validate_immediate_caller_type", {}, NoArg))
               ELSE FvmValidate("validate_immediate_caller_type",
                                resolve_builtin_actor_type(msg.code) \in types,
                                Arg("list", 0, types))

FvmCreateOverwrites ==
    /\ FvmRunning
    /\ \E obj \in StateVals :
          /\ store' = PutCbor(store, obj)
          /\ root' = CborCid(obj)
          /\ Returns(OkR("create", 0, {"root", "put", "set_root"}, Arg("obj", obj, 0)))
          /\ UNCHANGED << impl, phase, stack, caller_validated, in_transaction, msg,
                          mockVars, exit >>

FvmCreate ==
    /\ FvmRunning
    /\ \E obj \in StateVals :
          IF root # EMPTY_ARR_CID
          THEN FvmReturns(ErrR("create", USR_ILLEGAL_STATE, {"root"}, NoArg))
          ELSE /\ store' = PutCbor(store, obj)
               /\ root' = CborCid(obj)
               /\ Returns(OkR("create", 0, {"root", "put", "set_root"}, Arg("obj", obj, 0)))
               /\ UNCHANGED << impl, phase, stack, caller_validated, in_transaction, msg,
                               mockVars, exit >>

FvmState ==
    /\ FvmRunning
    /\ IF ~Has(store, root)
       THEN FvmPanics(PanicR("state", {"root", "get"}, NoArg))
       ELSE IF ~CanDecode(Get(store, root))
            THEN FvmReturns(ErrR("state", USR_ILLEGAL_ARGUMENT, {"root", "get"}, NoArg))
            ELSE FvmReturns(OkR("state", from_slice(Get(store, root)), {"root", "get"}, NoArg))

\* transaction, up to the call of the closure.
FvmTransactionBegin ==
    /\ FvmRunning
    /\ Len(stack) <= MaxDepth
    /\ LET state_cid == root IN
       IF ~Has(store, state_cid)
       THEN FvmPanics(PanicR("transaction", {"root", "get"}, NoArg))
       ELSE IF ~CanDecode(Get(store, state_cid))
            THEN FvmReturns(ErrR("transaction", USR_ILLEGAL_ARGUMENT, {"root", "get"}, NoArg))
            ELSE /\ in_transaction' = TRUE
                 /\ stack' = Append(stack, Frame("closure", from_slice(Get(store, state_cid)),
                                                  state_cid, state_cid))
                 /\ Returns(EnterR("transaction", {"root", "get"}))
                 /\ UNCHANGED << impl, phase, caller_validated, root, store, msg,
                                 mockVars, exit >>

\* The closure writes the state it was handed.
FvmClosureMutate ==
    /\ FvmRunning
    /\ InClosure
    /\ \E v \in StateVals \ {Top.st} :
          stack' = [stack EXCEPT ![Len(stack)].st = v]
    /\ UNCHANGED << impl, phase, caller_validated, in_transaction, root, store, msg,
                    mockVars, last, pre, exit >>

FvmNewRootStale(st) == root

\* The root a successful transaction sets: the identifier put_cbor returns for the
\* state as the closure left it.
FvmNewRoot(st) == CborCid(st)

\* transaction, from the return of the closure.
FvmTransactionReturns(result) ==
    /\ FvmRunning
    /\ InClosure
    /\ in_transaction' = FALSE
    /\ stack' = Pop
    /\ IF result.tag = "ok"
       THEN /\ store' = PutCbor(store, Top.st)
            /\ root' = FvmNewRoot(Top.st)
            /\ Returns(Res("transaction", "ok", OK, result.n, {"put", "set_root"},
                           result, Top))
       ELSE /\ Returns(Res("transaction", "err", result.n, 0, {}, result, Top))
            /\ UNCHANGED << root, store >>
    /\ UNCHANGED << impl, phase, caller_validated, msg, mockVars, exit >>

FvmTransactionEnd == \E result \in BodyResults : FvmTransactionReturns(result)

NormalizeExitCodeOneArm(c) == IF is_system_error(c) THEN USR_ASSERTION_FAILED ELSE c

\* The code returned to the sender for a remote exit code that is not success.
NormalizeExitCode(c) ==
    IF c \in {SYS_MISSING_RETURN, SYS_ILLEGAL_INSTRUCTION, SYS_ILLEGAL_EXIT_CODE}
    THEN USR_UNSPECIFIED
    ELSE IF is_system_error(c) THEN USR_ASSERTION_FAILED ELSE c

SendErrorCodeRaw(err) == err

SendErrorCodeUniform(err) == USR_ASSERTION_FAILED

\* The code returned to the sender for a failed send syscall.
SendErrorCode(err) ==
    CASE err = ErrNotFound -> USR_UNSPECIFIED
      [] err = ErrInsufficientFunds -> USR_INSUFFICIENT_FUNDS
      [] err = ErrLimitExceeded -> USR_ASSERTION_FAILED
      [] OTHER -> USR_ASSERTION_FAILED

\* What the host's send does: the receiver exits with a code and return data, or the
\* syscall fails with an error number.
HostSends == {Arg("exit", OK, d) : d \in Rets}
             \cup {Arg("exit", c, 0) : c \in ExitCodes \ {OK}}
             \cup {Arg("errno", e, 0) : e \in ErrorNumbers}

\* send once the host was called with outcome h.
SendResult(h) ==
    IF h.tag = "exit"
    THEN IF is_success(h.n)
         THEN OkR("send", h.data, {"send"}, h)
         ELSE ErrR("send", NormalizeExitCode(h.n), {"send"}, h)
    ELSE ErrR("send", SendErrorCode(h.n), {"send"}, h)

\* The guard of send, create_actor and delete_actor.
FvmSideEffectForbidden == in_transaction

FvmSend ==
    /\ FvmRunning
    /\ IF FvmSideEffectForbidden
       THEN FvmReturns(ErrR("send", USR_ASSERTION_FAILED, {}, NoArg))
       ELSE \E h \in HostSends : FvmReturns(SendResult(h))

FvmNewActorAddress ==
    /\ FvmRunning
    /\ \E a \in Addrs : FvmReturns(OkR("new_actor_address", a, {"new_actor_address"}, NoArg))

FvmCreateActor ==
    /\ FvmRunning
    /\ IF FvmSideEffectForbidden
       THEN FvmReturns(ErrR("create_actor", USR_ASSERTION_FAILED, {}, NoArg))
       ELSE \E h \in {Arg("ok", 0, 0)} \cup {Arg("errno", e, 0) : e \in ErrorNumbers} :
              IF h.tag = "ok"
              THEN FvmReturns(OkR("create_actor", 0, {"create_actor"}, h))
              ELSE FvmReturns(ErrR("create_actor",
                                   IF h.n = ErrIllegalArgument THEN USR_ILLEGAL_ARGUMENT
                                   ELSE USR_ASSERTION_FAILED,
                                   {"create_actor"}, h))

FvmDeleteActor ==
    /\ FvmRunning
    /\ IF FvmSideEffectForbidden
       THEN FvmReturns(ErrR("delete_actor", USR_ASSERTION_FAILED, {}, NoArg))
       ELSE FvmReturns(OkR("delete_actor", 0, {"self_destruct"}, NoArg))

FvmChargeGas ==
    /\ FvmRunning
    /\ FvmReturns(OkR("charge_gas", 0, {"charge"}, NoArg))

----------------------------------------------------------------------------
(* The entry trampoline: runtime/src/runtime/fvm.rs *)

\* Up to the call of invoke_method: the hook is set, the parameters block is
\* fetched (a panic when it is invalid), the runtime is built.
TrampolineStart ==
    /\ impl = "fvm"
    /\ phase = "start"
    /\ \E params_valid \in BOOLEAN :
          IF params_valid
          THEN /\ phase' = "invoke"
               /\ caller_validated' = FALSE
               /\ in_transaction' = FALSE
               /\ stack' = << Frame("method", 0, None, root) >>
               /\ Returns(EnterR("trampoline", {"params_raw"}))
               /\ UNCHANGED << impl, root, store, msg, mockVars, exit >>
          ELSE FvmPanics(PanicR("trampoline", {"params_raw"}, NoArg))

TrampolineExitUnchecked(result) ==
    IF result.tag = "err"
    THEN Abort(result.n, "err.msg")
    ELSE [kind |-> "return", code |-> OK, msg |-> "",
          block |-> IF result.n = 0 THEN "NO_DATA_BLOCK_ID" ELSE "put_block"]

TrampolineExitChecksFirst(result) ==
    IF ~caller_validated
    THEN Abort(USR_ASSERTION_FAILED, "failed to validate caller")
    ELSE IF result.tag = "err"
         THEN Abort(result.n, "err.msg")
         ELSE [kind |-> "return", code |-> OK, msg |-> "",
               block |-> IF result.n = 0 THEN "NO_DATA_BLOCK_ID" ELSE "put_block"]

TrampolineExitForbidden(result) ==
    IF result.tag = "err"
    THEN Abort(result.n, "err.msg")
    ELSE IF ~caller_validated
         THEN Abort(USR_FORBIDDEN, "failed to validate caller")
         ELSE [kind |-> "return", code |-> OK, msg |-> "",
               block |-> IF result.n = 0 THEN "NO_DATA_BLOCK_ID" ELSE "put_block"]

\* From the return of invoke_method with `result`: how the invocation ends.
TrampolineExit(result) ==
    IF result.tag = "err"
    THEN Abort(result.n, "err.msg")
    ELSE IF ~caller_validated
         THEN Abort(USR_ASSERTION_FAILED, "failed to validate caller")
         ELSE [kind |-> "return", code |-> OK, msg |-> "",
               block |-> IF result.n = 0 THEN "NO_DATA_BLOCK_ID" ELSE "put_block"]

\* trampoline, from the return of invoke_method with `result`.
TrampolineReturns(result) ==
    /\ FvmRunning
    /\ Len(stack) = 1
    /\ exit' = TrampolineExit(result)
    /\ Returns(Res("invoke_method", result.tag, result.n, result.n, {}, result, Top))
    /\ phase' = "done"
    /\ stack' = << >>
    /\ UNCHANGED << impl, caller_validated, in_transaction, root, store, msg, mockVars >>

TrampolineReturn == \E result \in BodyResults : TrampolineReturns(result)

\* The actor's own code panics.
FvmActorPanic ==
    /\ FvmRunning
    /\ FvmPanics(PanicR("actor", {}, NoArg))

----------------------------------------------------------------------------
(* MockRuntime: runtime/src/test_utils.rs *)

MockRunning == impl = "mock" /\ phase = "test"

\* A panic aborts the test.
MockPanics(r) ==
    /\ Returns(r)
    /\ phase' = "panicked"
    /\ UNCHANGED << impl, stack, in_transaction, store, msg, fvmVars, mockVars, exit >>

\* An operation that returns r and changes no field of the runtime.
MockReturns(r) ==
    /\ Returns(r)
    /\ UNCHANGED << impl, phase, stack, in_transaction, store, msg, fvmVars, mockVars, exit >>

\* assert!(self.in_call)
require_in_call == in_call

\* call, up to invoke_method.
MockCallBegin ==
    /\ MockRunning
    /\ stack = << >>
    /\ in_call' = TRUE
    /\ LET prev_state == state IN
         stack' = << [Frame("method", 0, None, prev_state) EXCEPT !.balance = balance] >>
    /\ Returns(EnterR("call", {}))
    /\ UNCHANGED << impl, phase, in_transaction, store, msg, fvmVars, state, balance,
                    expectations, new_actor_addr, exit >>

StateAfterCallKept(res, prev_state) == state

\* The state root call leaves: prev_state when invoke_method returned an error.
StateAfterCall(res, prev_state) == IF res.tag = "err" THEN prev_state ELSE state

MockCallRestoresBalance(res) ==
    /\ MockRunning
    /\ Len(stack) = 1
    /\ Top.kind = "method"
    /\ state' = StateAfterCall(res, Top.entry)
    /\ balance' = IF res.tag = "err" THEN Top.balance ELSE balance
    /\ Returns(Res("call", res.tag, res.n, res.n, {}, res, Top))
    /\ in_call' = FALSE
    /\ stack' = << >>
    /\ UNCHANGED << impl, phase, in_transaction, store, msg, fvmVars,
                    expectations, new_actor_addr, exit >>

\* call, from the return of invoke_method with `res`.
MockCallReturns(res) ==
    /\ MockRunning
    /\ Len(stack) = 1
    /\ Top.kind = "method"
    /\ state' = StateAfterCall(res, Top.entry)
    /\ Returns(Res("call", res.tag, res.n, res.n, {}, res, Top))
    /\ in_call' = FALSE
    /\ stack' = << >>
    /\ UNCHANGED << impl, phase, in_transaction, store, msg, fvmVars, balance,
                    expectations, new_actor_addr, exit >>

MockCallEnd == \E res \in BodyResults : MockCallReturns(res)

\* call_fn, up to f.
MockCallFnBegin ==
    /\ MockRunning
    /\ stack = << >>
    /\ in_call' = TRUE
    /\ stack' = << Frame("call_fn", 0, None, state) >>
    /\ Returns(EnterR("call_fn", {}))
    /\ UNCHANGED << impl, phase, in_transaction, store, msg, fvmVars, state, balance,
                    expectations, new_actor_addr, exit >>

\* call_fn, from the return of f.
MockCallFnEnd ==
    /\ MockRunning
    /\ Len(stack) = 1
    /\ Top.kind = "call_fn"
    /\ \E res \in BodyResults :
          Returns(Res("call_fn", res.tag, res.n, res.n, {}, res, Top))
    /\ in_call' = FALSE
    /\ stack' = << >>
    /\ UNCHANGED << impl, phase, in_transaction, store, msg, fvmVars, state, balance,
                    expectations, new_actor_addr, exit >>

MockCreate ==
    /\ MockRunning
    /\ \E obj \in StateVals :
          IF state # None
          THEN MockReturns(ErrR("create", USR_ILLEGAL_STATE, {}, NoArg))
          ELSE /\ store' = PutCbor(store, obj)
               /\ state' = CborCid(obj)
               /\ Returns(OkR("create", 0, {"put"}, Arg("obj", obj, 0)))
               /\ UNCHANGED << impl, phase, stack, in_transaction, msg, fvmVars, in_call,
                               balance, expectations, new_actor_addr, exit >>

\* state(): self.state.unwrap(), then store_get's unwraps.
MockStateReadable == state # None /\ Has(store, state) /\ CanDecode(Get(store, state))

MockState ==
    /\ MockRunning
    /\ IF ~MockStateReadable
       THEN MockPanics(PanicR("state", IF state = None THEN {} ELSE {"get"}, NoArg))
       ELSE MockReturns(OkR("state", from_slice(Get(store, state)), {"get"}, NoArg))

MockRejectsNestedNever == FALSE

\* The guard of transaction: a transaction is running already.
MockRejectsNested == in_transaction

\* transaction, up to the call of the closure.
MockTransactionBegin ==
    /\ MockRunning
    /\ Len(stack) <= MaxDepth
    /\ IF MockRejectsNested
       THEN MockReturns(ErrR("transaction", USR_ASSERTION_FAILED, {}, NoArg))
       ELSE IF ~MockStateReadable
            THEN MockPanics(PanicR("transaction", IF state = None THEN {} ELSE {"get"}, NoArg))
            ELSE /\ in_transaction' = TRUE
                 /\ stack' = Append(stack, Frame("closure", from_slice(Get(store, state)),
                                                  None, state))
                 /\ Returns(EnterR("transaction", {"get"}))
                 /\ UNCHANGED << impl, phase, store, msg, fvmVars, mockVars, exit >>

\* The closure writes the state it was handed.
MockClosureMutate ==
    /\ MockRunning
    /\ InClosure
    /\ \E v \in StateVals \ {Top.st} :
          stack' = [stack EXCEPT ![Len(stack)].st = v]
    /\ UNCHANGED << impl, phase, in_transaction, store, msg, fvmVars, mockVars, last, pre,
                    exit >>

\* transaction, from the return of the closure.
MockTransactionReturnsInScope(ret) ==
    /\ MockRunning
    /\ InClosure
    /\ IF ret.tag = "ok"
       THEN /\ store' = PutCbor(store, Top.st)
            /\ state' = CborCid(Top.st)
            /\ Returns(Res("transaction", "ok", OK, ret.n, {"put"}, ret, Top))
       ELSE /\ Returns(Res("transaction", "err", ret.n, 0, {}, ret, Top))
            /\ UNCHANGED << store, state >>
    /\ stack' = Pop
    /\ UNCHANGED << impl, phase, in_transaction, msg, fvmVars, in_call, balance,
                    expectations, new_actor_addr, exit >>

MockTransactionReturns(ret) ==
    /\ MockRunning
    /\ InClosure
    /\ IF ret.tag = "ok"
       THEN /\ store' = PutCbor(store, Top.st)
            /\ state' = CborCid(Top.st)
            /\ Returns(Res("transaction", "ok", OK, ret.n, {"put"}, ret, Top))
       ELSE /\ Returns(Res("transaction", "err", ret.n, 0, {}, ret, Top))
            /\ UNCHANGED << store, state >>
    /\ in_transaction' = FALSE
    /\ stack' = Pop
    /\ UNCHANGED << impl, phase, msg, fvmVars, in_call, balance, expectations,
                    new_actor_addr, exit >>

MockTransactionEnd == \E ret \in BodyResults : MockTransactionReturns(ret)

\* The guard of send, create_actor and delete_actor, after require_in_call.
MockSideEffectForbidden == in_transaction

\* The arguments of a send: every value, and a destination, method and params of
\* which at most one is not the expected message's, so that each assert_eq of send
\* fails on its own.
SendCalls ==
    { c \in [to : Addrs, method : Methods, params : Params, value : Amounts] :
        Cardinality({f \in {"to", "method", "params"} :
                        c[f] # (IF f = "params" THEN 0 ELSE 1)}) <= 1 }

SendMatchesAny(expected_msg, c) == TRUE

\* The four assert_eq of send.
SendMatches(expected_msg, c) ==
    /\ expected_msg.to = c.to
    /\ expected_msg.method = c.method
    /\ expected_msg.params = c.params
    /\ expected_msg.value = c.value

\* A send's record of its arguments.
SendArg(c) == [tag |-> "send", n |-> c.value, data |-> 0, to |-> c.to,
               method |-> c.method, params |-> c.params]

ExceedsBalanceNever(value, b) == FALSE

\* value > *balance
ExceedsBalance(value, b) == value > b

DebitNothing(b, value) == b

\* *balance -= value
Debit(b, value) == b - value

MockSend ==
    /\ MockRunning
    /\ \E c \in SendCalls :
        LET a == SendArg(c) IN
          IF ~require_in_call
          THEN MockPanics(PanicR("send", {}, NoArg))
          ELSE IF MockSideEffectForbidden
          THEN MockReturns(ErrR("send", USR_ASSERTION_FAILED, {}, Arg("send", c.value, 0)))
          ELSE IF expectations.expect_sends = << >>
          THEN MockPanics(PanicR("send", {}, NoArg))
          ELSE LET expected_msg == Head(expectations.expect_sends)
                   popped == [expectations EXCEPT !.expect_sends = Tail(@)]
               IN IF ~SendMatches(expected_msg, c)
                  THEN /\ expectations' = popped
                       /\ Returns(PanicR("send", {}, NoArg))
                       /\ phase' = "panicked"
                       /\ UNCHANGED << impl, stack, in_transaction, store, msg, fvmVars,
                                       in_call, state, balance, new_actor_addr, exit >>
                  ELSE /\ expectations' = popped
                       /\ IF ExceedsBalance(c.value, balance)
                          THEN /\ Returns(ErrR("send", SYS_SENDER_STATE_INVALID, {}, a))
                               /\ UNCHANGED balance
                          ELSE /\ balance' = Debit(balance, c.value)
                               /\ IF expected_msg.exit_code = OK
                                  THEN Returns(OkR("send", expected_msg.send_return, {}, a))
                                  ELSE Returns(ErrR("send", expected_msg.exit_code, {}, a))
                       /\ UNCHANGED << impl, phase, stack, in_transaction, store, msg,
                                       fvmVars, in_call, state, new_actor_addr, exit >>

MockNewActorAddress ==
    /\ MockRunning
    /\ IF ~require_in_call \/ new_actor_addr = None
       THEN MockPanics(PanicR("new_actor_address", {}, NoArg))
       ELSE /\ new_actor_addr' = None
            /\ Returns(OkR("new_actor_address", new_actor_addr.digest, {}, NoArg))
            /\ UNCHANGED << impl, phase, stack, in_transaction, store, msg, fvmVars,
                            in_call, state, balance, expectations, exit >>

MockCreateActor ==
    /\ MockRunning
    /\ \E code_id \in Types, actor_id \in Addrs :
        LET a == Arg("actor", 0, << code_id, actor_id >>) IN
          IF ~require_in_call
          THEN MockPanics(PanicR("create_actor", {}, NoArg))
          ELSE IF MockSideEffectForbidden
          THEN MockReturns(ErrR("create_actor", USR_ASSERTION_FAILED, {}, a))
          ELSE LET expect_create_actor == expectations.expect_create_actor IN
               /\ expectations' = [expectations EXCEPT !.expect_create_actor = None]
               /\ IF expect_create_actor = None
                     \/ expect_create_actor # Some(<< code_id, actor_id >>)
                  THEN Returns(PanicR("create_actor", {}, NoArg)) /\ phase' = "panicked"
                  ELSE Returns(OkR("create_actor", 0, {}, a)) /\ UNCHANGED phase
               /\ UNCHANGED << impl, stack, in_transaction, store, msg, fvmVars, in_call,
                               state, balance, new_actor_addr, exit >>

MockDeleteActor ==
    /\ MockRunning
    /\ \E burn_unspent \in BOOLEAN :
        LET a == Arg("burn", 0, burn_unspent) IN
          IF ~require_in_call
          THEN MockPanics(PanicR("delete_actor", {}, NoArg))
          ELSE IF MockSideEffectForbidden
          THEN MockReturns(ErrR("delete_actor", USR_ASSERTION_FAILED, {}, a))
          ELSE LET exp_act == expectations.expect_delete_actor IN
               /\ expectations' = [expectations EXCEPT !.expect_delete_actor = None]
               /\ IF exp_act = None \/ exp_act # Some(burn_unspent)
                  THEN Returns(PanicR("delete_actor", {}, NoArg)) /\ phase' = "panicked"
                  ELSE Returns(OkR("delete_actor", 0, {}, a)) /\ UNCHANGED phase
               /\ UNCHANGED << impl, stack, in_transaction, store, msg, fvmVars, in_call,
                               state, balance, new_actor_addr, exit >>

\* An operation that returns r and leaves the expectations as e.
MockConsumes(r, e) ==
    /\ expectations' = e
    /\ Returns(r)
    /\ UNCHANGED << impl, phase, stack, in_transaction, store, msg, fvmVars, in_call,
                    state, balance, new_actor_addr, exit >>

\* A panic after the expectations became e.
MockConsumesAndPanics(r, e) ==
    /\ expectations' = e
    /\ Returns(r)
    /\ phase' = "panicked"
    /\ UNCHANGED << impl, stack, in_transaction, store, msg, fvmVars, in_call,
                    state, balance, new_actor_addr, exit >>

\* A validation that returns Ok: the expectations become e, and the invocation's
\* frame counts it.
MockValidates(r, e) ==
    /\ expectations' = e
    /\ stack' = [stack EXCEPT ![1].validated = @ + 1]
    /\ Returns(r)
    /\ UNCHANGED << impl, phase, in_transaction, store, msg, fvmVars, in_call,
                    state, balance, new_actor_addr, exit >>

\* The address and type lists a validation is called with or a test registers:
\* one that holds the caller, or its type, and one that does not.
AddrLists == {{a} : a \in Addrs}
TypeLists == {{t} : t \in Types}

MockMessage ==
    /\ MockRunning
    /\ IF ~require_in_call
       THEN MockPanics(PanicR("message", {}, NoArg))
       ELSE MockReturns(OkR("message", msg.caller, {}, NoArg))

MockValidateAcceptAny ==
    /\ MockRunning
    /\ LET op == "validate_immediate_caller_accept_any" IN
       IF ~require_in_call \/ ~expectations.expect_validate_caller_any
       THEN MockPanics(PanicR(op, {}, NoArg))
       ELSE MockValidates(OkR(op, 0, {}, NoArg),
                          [expectations EXCEPT !.expect_validate_caller_any = FALSE])

MockValidatesIsKeeps(addrs) ==
    /\ MockRunning
    /\ LET op == "validate_immediate_caller_is"
           a == Arg("list", 0, addrs)
       IN IF ~require_in_call
             \/ expectations.expect_validate_caller_addr = None
             \/ Some(addrs) # expectations.expect_validate_caller_addr
          THEN MockPanics(PanicR(op, {}, NoArg))
          ELSE IF msg.caller \in addrs
               THEN MockValidates(OkR(op, 0, {}, a),
                                  [expectations EXCEPT !.expect_validate_caller_addr = None])
               ELSE MockConsumes(ErrR(op, USR_FORBIDDEN, {}, a), expectations)

\* validate_immediate_caller_is(addrs)
MockValidatesIs(addrs) ==
    /\ MockRunning
    /\ LET op == "validate_immediate_caller_is"
           a == Arg("list", 0, addrs)
       IN IF ~require_in_call
             \/ expectations.expect_validate_caller_addr = None
             \/ Some(addrs) # expectations.expect_validate_caller_addr
          THEN MockPanics(PanicR(op, {}, NoArg))
          ELSE LET e == [expectations EXCEPT !.expect_validate_caller_addr = None] IN
               IF msg.caller \in addrs
               THEN MockValidates(OkR(op, 0, {}, a), e)
               ELSE MockConsumes(ErrR(op, USR_FORBIDDEN, {}, a), e)

MockValidateIs == \E addrs \in AddrLists : MockValidatesIs(addrs)

MockValidateType ==
    /\ MockRunning
    /\ \E types \in TypeLists :
        LET op == "validate_immediate_caller_type"
            a == Arg("list", 0, types)
        IN IF ~require_in_call
              \/ expectations.expect_validate_caller_type = None
              \/ Some(types) # expectations.expect_validate_caller_type
           THEN MockPanics(PanicR(op, {}, NoArg))
           ELSE LET e == [expectations EXCEPT !.expect_validate_caller_type = None] IN
                IF msg.code \in types
                THEN MockValidates(OkR(op, 0, {}, a), e)
                ELSE MockConsumes(ErrR(op, USR_FORBIDDEN, {}, a), e)

MockValidateNotType ==
    /\ MockRunning
    /\ \E types \in TypeLists :
        LET op == "validate_immediate_caller_not_type"
            a == Arg("list", 0, types)
        IN IF ~require_in_call \/ expectations.expect_validate_caller_not_type = None
           THEN MockPanics(PanicR(op, {}, NoArg))
           ELSE LET expect_validate_caller_not_type ==
                        expectations.expect_validate_caller_not_type.digest
                    e == [expectations EXCEPT !.expect_validate_caller_not_type = None]
                IN IF \E unexpected \in types :
                          unexpected \notin expect_validate_caller_not_type
                   THEN MockConsumes(ErrR(op, USR_FORBIDDEN, {}, a), e)
                   ELSE MockValidates(OkR(op, 0, {}, a), e)

\* The amounts of gas charged or expected.
GasValues == {1, 2}

pop_back(q) == q[Len(q)]

\* VecDeque::pop_front: the entry it returns; Tail is what it leaves.
pop_front(q) == Head(q)

MockChargeGas ==
    /\ MockRunning
    /\ \E value \in GasValues :
        LET a == Arg("gas", value, 0) IN
          IF expectations.expect_gas_charge = << >>
          THEN MockPanics(PanicR("charge_gas", {}, NoArg))
          ELSE LET expected == pop_front(expectations.expect_gas_charge)
                   e == [expectations EXCEPT !.expect_gas_charge = Tail(@)]
               IN IF expected # value
                  THEN MockConsumesAndPanics(PanicR("charge_gas", {}, NoArg), e)
                  ELSE MockConsumes(OkR("charge_gas", 0, {}, a), e)

\* A signature check: signature, signer and plaintext taken as one value.
Sigs == {1, 2}
ExpectedVerifySigs == [sig : {1}, result : {"ok", "err"}]

MockVerifySignature ==
    /\ MockRunning
    /\ \E signature \in Sigs :
        LET a == Arg("sig", signature, 0) IN
          IF expectations.expect_verify_sigs = << >>
          THEN MockPanics(PanicR("verify_signature", {}, NoArg))
          ELSE LET exp == pop_front(expectations.expect_verify_sigs)
                   e == [expectations EXCEPT !.expect_verify_sigs = Tail(@)]
               IN IF exp.sig # signature
                  THEN MockConsumesAndPanics(PanicR("verify_signature", {}, NoArg), e)
                  ELSE IF exp.result = "err"
                       THEN MockConsumes(Res("verify_signature", "err", 0, 0, {}, a, NoFrame), e)
                       ELSE MockConsumes(OkR("verify_signature", 0, {}, a), e)

----------------------------------------------------------------------------
(* The test's side of MockRuntime: expectations, verify, reset *)

NoExpectations == [expect_validate_caller_any |-> FALSE,
                   expect_validate_caller_addr |-> None,
                   expect_validate_caller_type |-> None,
                   expect_validate_caller_not_type |-> None,
                   expect_sends |-> << >>,
                   expect_create_actor |-> None,
                   expect_delete_actor |-> None,
                   expect_verify_sigs |-> << >>,
                   expect_gas_charge |-> << >>]

\* The expectations now registered, new_actor_addr counted with them.
Registered(e, naa) ==
    (IF e.expect_validate_caller_any THEN 1 ELSE 0)
    + (IF e.expect_validate_caller_addr = None THEN 0 ELSE 1)
    + (IF e.expect_validate_caller_type = None THEN 0 ELSE 1)
    + (IF e.expect_validate_caller_not_type = None THEN 0 ELSE 1)
    + Len(e.expect_sends)
    + (IF e.expect_create_actor = None THEN 0 ELSE 1)
    + (IF e.expect_delete_actor = None THEN 0 ELSE 1)
    + Len(e.expect_verify_sigs)
    + Len(e.expect_gas_charge)
    + (IF naa = None THEN 0 ELSE 1)

\* A test has at most MaxExpect expectations registered at a time.
WithinBounds(e) == Registered(e, new_actor_addr) <= MaxExpect

\* The test is between two calls.
AtTest == MockRunning /\ stack = << >>

\* A registration: the expectations become e.
Registers(op, e) ==
    /\ AtTest
    /\ WithinBounds(e)
    /\ MockConsumes(OkR(op, 0, {}, NoArg), e)

\* The messages a test expects: by the symmetry of the comparisons in send, one
\* destination, with every value and a successful and a failing exit code.
ExpectedMessages ==
    { [to |-> 1, method |-> 1, params |-> 0, value |-> v, send_return |-> MaxRet,
       exit_code |-> c] : v \in Amounts, c \in {OK, SYS_ILLEGAL_INSTRUCTION} }

expect_validate_caller_any ==
    Registers("expect_validate_caller_any",
              [expectations EXCEPT !.expect_validate_caller_any = TRUE])

expect_validate_caller_addr ==
    \E addr \in AddrLists :
        Registers("expect_validate_caller_addr",
                  [expectations EXCEPT !.expect_validate_caller_addr = Some(addr)])

expect_validate_caller_type ==
    \E types \in TypeLists :
        Registers("expect_validate_caller_type",
                  [expectations EXCEPT !.expect_validate_caller_type = Some(types)])

expect_validate_caller_not_type ==
    \E types \in TypeLists :
        Registers("expect_validate_caller_not_type",
                  [expectations EXCEPT !.expect_validate_caller_not_type = Some(types)])

expect_send ==
    \E m \in ExpectedMessages :
        Registers("expect_send", [expectations EXCEPT !.expect_sends = Append(@, m)])

\* expect_send of a test that queues sends only, up to MaxSends of them.
expect_send_queue ==
    \E m \in ExpectedMessages :
        LET e == [expectations EXCEPT !.expect_sends = Append(@, m)] IN
        /\ AtTest
        /\ Registered(e, new_actor_addr) = Len(e.expect_sends)
        /\ Len(e.expect_sends) <= MaxSends
        /\ MockConsumes(OkR("expect_send", 0, {}, NoArg), e)

expect_create_actor ==
    Registers("expect_create_actor",
              [expectations EXCEPT !.expect_create_actor = Some(<< 1, 1 >>)])

expect_delete_actor ==
    \E burn_unspent \in BOOLEAN :
        Registers("expect_delete_actor",
                  [expectations EXCEPT !.expect_delete_actor = Some(burn_unspent)])

expect_verify_signature ==
    \E exp \in ExpectedVerifySigs :
        Registers("expect_verify_signature",
                  [expectations EXCEPT !.expect_verify_sigs = Append(@, exp)])

expect_gas_charge ==
    \E value \in {1} :
        Registers("expect_gas_charge",
                  [expectations EXCEPT !.expect_gas_charge = Append(@, value)])

\* Expectations::verify: the asserts, in their order.
VerifyPasses(e) ==
    /\ ~e.expect_validate_caller_any
    /\ e.expect_validate_caller_addr = None
    /\ e.expect_validate_caller_type = None
    /\ e.expect_sends = << >>
    /\ e.expect_create_actor = None
    /\ e.expect_delete_actor = None
    /\ e.expect_verify_sigs = << >>
    /\ e.expect_gas_charge = << >>

MockVerify ==
    /\ AtTest
    /\ IF VerifyPasses(expectations)
       THEN MockReturns(OkR("verify", 0, {}, NoArg))
       ELSE MockPanics(PanicR("verify", {}, NoArg))

MockResetKeepsSends ==
    /\ AtTest
    /\ MockConsumes(OkR("reset", 0, {}, NoArg),
                    [NoExpectations EXCEPT !.expect_sends = expectations.expect_sends])

MockReset ==
    /\ AtTest
    /\ MockConsumes(OkR("reset", 0, {}, NoArg), NoExpectations)

----------------------------------------------------------------------------
(* Initial states and the next-state relation *)

\* The trampoline is entered on an actor whose root is the empty array's identifier
\* (not constructed yet; the host may or may not hold the empty array's blob) or
\* the identifier of a state the store holds.
InitFvm ==
    /\ impl = "fvm"
    /\ phase = "start"
    /\ stack = << >>
    /\ caller_validated = FALSE
    /\ in_transaction = FALSE
    /\ \/ root = EMPTY_ARR_CID /\ store \in {{}, {EMPTY_ARR_BYTES}}
       \/ \E v \in StateVals : root = CborCid(v) /\ store = {EMPTY_ARR_BYTES, to_vec(v)}
    /\ msg \in [caller : {1}, code : {0, 1, NotBuiltin}]
    /\ in_call = FALSE
    /\ state = None
    /\ balance = 0
    /\ expectations = NoExpectations
    /\ new_actor_addr = None
    /\ last = NoRes
    /\ pre = Snap
    /\ exit = NoExit

\* A test builds a MockRuntime and sets the balance, the state (replace_state) and
\* the address new_actor_address is to return; no expectation is registered yet.
InitMock ==
    /\ impl = "mock"
    /\ phase = "test"
    /\ stack = << >>
    /\ caller_validated = FALSE
    /\ in_transaction = FALSE
    /\ root = None
    /\ \/ state = None /\ store = {}
       \/ \E v \in StateVals : state = CborCid(v) /\ store = {to_vec(v)}
    /\ msg \in [caller : {1}, code : {1}]
    /\ in_call = FALSE
    /\ balance \in Amounts
    /\ expectations = NoExpectations
    /\ new_actor_addr \in {None, Some(1)}
    /\ last = NoRes
    /\ pre = Snap
    /\ exit = NoExit

Init == InitFvm \/ InitMock

NextMock ==
    \/ MockCallBegin
    \/ MockCallEnd
    \/ MockCallFnBegin
    \/ MockCallFnEnd
    \/ MockCreate
    \/ MockState
    \/ MockTransactionBegin
    \/ MockClosureMutate
    \/ MockTransactionEnd
    \/ MockSend
    \/ MockNewActorAddress
    \/ MockCreateActor
    \/ MockDeleteActor
    \/ MockMessage
    \/ MockValidateAcceptAny
    \/ MockValidateIs
    \/ MockValidateType
    \/ MockValidateNotType
    \/ MockChargeGas
    \/ MockVerifySignature
    \/ expect_validate_caller_any
    \/ expect_validate_caller_addr
    \/ expect_validate_caller_type
    \/ expect_validate_caller_not_type
    \/ expect_send
    \/ expect_create_actor
    \/ expect_delete_actor
    \/ expect_verify_signature
    \/ expect_gas_charge
    \/ MockVerify
    \/ MockReset

NextFvm ==
    \/ TrampolineStart
    \/ FvmValidateAcceptAny
    \/ FvmValidateIs
    \/ FvmValidateType
    \/ FvmCreate
    \/ FvmState
    \/ FvmTransactionBegin
    \/ FvmClosureMutate
    \/ FvmTransactionEnd
    \/ FvmSend
    \/ FvmNewActorAddress
    \/ FvmCreateActor
    \/ FvmDeleteActor
    \/ FvmChargeGas
    \/ TrampolineReturn
    \/ FvmActorPanic

Next == NextFvm \/ NextMock

Spec == Init /\ [][Next]_vars

\* A test of sends: the state is set, the balance is MaxBalance, and the test
\* queues up to MaxSends expected sends.
InitSends ==
    /\ InitMock
    /\ state = CborCid(0)
    /\ balance = MaxBalance
    /\ new_actor_addr = None

NextSends == NextMock \/ expect_send_queue

SpecSends == InitSends /\ [][NextSends]_vars

----------------------------------------------------------------------------
(* The example actor *)

\* The address of the system actor, one of Addrs.
SYSTEM_ACTOR_ADDR == 1

\* Method numbers; NoMethod is a number from_u64 maps to None.
Constructor == 1
Persist == 2
NoMethod == 3

\* The method invoke_method dispatched to, 0 before the dispatch.
ExMethod == stack[1].method

ExAt(op, kind) == last.op = op /\ last.kind = kind

\* invoke_method returns result to the trampoline or to MockRuntime::call.
ExampleReturns(result) == TrampolineReturns(result) \/ MockCallReturns(result)

\* invoke_method, the match on the method number: an unknown number returns
\* unhandled_message and parameters of Persist that do not decode return a
\* serialization error; otherwise the method's function is entered.
ExampleInvokeMethod ==
    /\ Len(stack) = 1
    /\ ExMethod = 0
    /\ ExAt("trampoline", "enter") \/ ExAt("call", "enter")
    /\ \E method \in {Constructor, Persist, NoMethod}, params_decode \in BOOLEAN :
          IF method = NoMethod
          THEN ExampleReturns(Arg("err", USR_UNHANDLED_MESSAGE, 0))
          ELSE IF method = Persist /\ ~params_decode
               THEN ExampleReturns(Arg("err", USR_SERIALIZATION, 0))
               ELSE /\ stack' = [stack EXCEPT ![1].method = method]
                    /\ Returns(EnterR("invoke_method", {}))
                    /\ UNCHANGED << impl, phase, in_transaction, store, msg, fvmVars,
                                    mockVars, exit >>

\* constructor and persist: rt.validate_immediate_caller_is(once(&*SYSTEM_ACTOR_ADDR))
ExampleValidateCaller ==
    /\ Len(stack) = 1
    /\ ExMethod \in {Constructor, Persist}
    /\ ExAt("invoke_method", "enter")
    /\ FvmValidatesIs({SYSTEM_ACTOR_ADDR}) \/ MockValidatesIs({SYSTEM_ACTOR_ADDR})

\* The ? after a call of the runtime: the method returns the error it got.
ExamplePropagates ==
    /\ Len(stack) = 1
    /\ ExMethod \in {Constructor, Persist}
    /\ last.kind = "err"
    /\ last.op \in {"validate_immediate_caller_is", "State::new", "create", "transaction"}
    /\ ExampleReturns(Arg("err", last.code, 0))

\* constructor: State::new(rt.store()), whose error becomes USR_ILLEGAL_STATE.
ExampleStateNew ==
    /\ Len(stack) = 1
    /\ ExMethod = Constructor
    /\ ExAt("validate_immediate_caller_is", "ok")
    /\ \E created \in BOOLEAN :
          /\ Returns(IF created THEN OkR("State::new", 0, {}, NoArg)
                                ELSE ErrR("State::new", USR_ILLEGAL_STATE, {}, NoArg))
          /\ UNCHANGED << impl, phase, stack, in_transaction, store, msg, fvmVars,
                          mockVars, exit >>

\* constructor: rt.create(&st)
ExampleCreate ==
    /\ Len(stack) = 1
    /\ ExMethod = Constructor
    /\ ExAt("State::new", "ok")
    /\ FvmCreate \/ MockCreate

\* persist: rt.message().caller(), then rt.transaction(..) up to its closure.
ExampleTransaction ==
    /\ Len(stack) = 1
    /\ ExMethod = Persist
    /\ ExAt("validate_immediate_caller_is", "ok")
    /\ FvmTransactionBegin \/ MockTransactionBegin

\* The closure of persist: st.upsert_user(..) writes the state, or fails with an
\* error that becomes USR_ILLEGAL_STATE; the transaction then returns.
ExampleUpsertUser ==
    /\ Len(stack) = 2
    /\ ExMethod = Persist
    /\ InClosure
    /\ ExAt("transaction", "enter")
    /\ Top.st = from_slice(Get(store, Top.entry))
    /\ FvmClosureMutate \/ MockClosureMutate

ExampleClosureReturns ==
    /\ Len(stack) = 2
    /\ ExMethod = Persist
    /\ InClosure
    /\ ExAt("transaction", "enter")
    /\ \E result \in {Arg("ok", 0, 0), Arg("err", USR_ILLEGAL_STATE, 0)} :
          FvmTransactionReturns(result) \/ MockTransactionReturns(result)

\* Ok(()) of constructor and persist, Ok(RawBytes) of invoke_method.
ExampleReturnsOk ==
    /\ Len(stack) = 1
    /\ \/ ExMethod = Constructor /\ ExAt("create", "ok")
       \/ ExMethod = Persist /\ ExAt("transaction", "ok")
    /\ ExampleReturns(Arg("ok", 0, 0))

\* The invocations of the example actor: through the trampoline, with any caller,
\* and in a test, which expects the validation of the caller before each call.
InitExample ==
    \/ /\ InitFvm
       /\ msg.code = 1
    \/ /\ InitMock
       /\ balance = 0
       /\ new_actor_addr = None

\* The caller of the message: trampoline and tests (set_caller) run with any.
ExampleSetCaller ==
    /\ (impl = "fvm" /\ phase = "start") \/ AtTest
    /\ last = NoRes
    /\ \E a \in Addrs \ {msg.caller} : msg' = [msg EXCEPT !.caller = a]
    /\ UNCHANGED << impl, phase, stack, in_transaction, store, fvmVars, mockVars,
                    last, pre, exit >>

NextExample ==
    \/ ExampleSetCaller
    \/ TrampolineStart
    \/ MockCallBegin
    \/ expect_validate_caller_addr
    \/ MockVerify
    \/ ExampleInvokeMethod
    \/ ExampleValidateCaller
    \/ ExamplePropagates
    \/ ExampleStateNew
    \/ ExampleCreate
    \/ ExampleTransaction
    \/ ExampleUpsertUser
    \/ ExampleClosureReturns
    \/ ExampleReturnsOk

SpecExample == InitExample /\ [][NextExample]_vars

\* replace_state, called by a test between two calls.
MockReplaceState ==
    /\ AtTest
    /\ \E obj \in StateVals :
          /\ store' = PutCbor(store, obj)
          /\ state' = CborCid(obj)
          /\ Returns(OkR("replace_state", 0, {"put"}, Arg("obj", obj, 0)))
          /\ UNCHANGED << impl, phase, stack, in_transaction, msg, fvmVars, in_call,
                          balance, expectations, new_actor_addr, exit >>

\* A test on a runtime as MockRuntime::new builds it: no state, an empty store.
InitReplace ==
    /\ InitMock
    /\ state = None
    /\ balance = 0
    /\ new_actor_addr = None

NextReplace == NextMock \/ MockReplaceState

SpecReplace == InitReplace /\ [][NextReplace]_vars

\* A test that queues gas charges and signature checks before a call.
expect_queues ==
    \E e \in { [expectations EXCEPT !.expect_gas_charge = Append(@, value)]
                  : value \in GasValues }
              \cup { [expectations EXCEPT !.expect_verify_sigs = Append(@, exp)]
                     : exp \in [sig : Sigs, result : {"ok", "err"}] } :
        /\ AtTest
        /\ Registered(e, new_actor_addr)
              = Len(e.expect_gas_charge) + Len(e.expect_verify_sigs)
        /\ Len(e.expect_gas_charge) + Len(e.expect_verify_sigs) <= MaxQueue
        /\ MockConsumes(OkR(IF e.expect_gas_charge # expectations.expect_gas_charge
                            THEN "expect_gas_charge" ELSE "expect_verify_signature",
                            0, {}, NoArg), e)

\* A test of queued expectations: the state is set and the test queues up to
\* MaxQueue gas charges and signature checks.
InitQueues ==
    /\ InitMock
    /\ state = CborCid(0)
    /\ balance = 0
    /\ new_actor_addr = None

NextQueues == NextMock \/ expect_queues

SpecQueues == InitQueues /\ [][NextQueues]_vars

\* The validation expectations registered in e.
ValidationsRegistered(e) ==
    (IF e.expect_validate_caller_any THEN 1 ELSE 0)
    + (IF e.expect_validate_caller_addr = None THEN 0 ELSE 1)
    + (IF e.expect_validate_caller_type = None THEN 0 ELSE 1)
    + (IF e.expect_validate_caller_not_type = None THEN 0 ELSE 1)

\* What one more expect_validate_caller_* call makes of the expectations.
ValidationRegistrations ==
    { [op |-> "expect_validate_caller_any",
       e |-> [expectations EXCEPT !.expect_validate_caller_any = TRUE]] }
    \cup { [op |-> "expect_validate_caller_addr",
            e |-> [expectations EXCEPT !.expect_validate_caller_addr = Some(a)]]
           : a \in AddrLists }
    \cup { [op |-> "expect_validate_caller_type",
            e |-> [expectations EXCEPT !.expect_validate_caller_type = Some(t)]]
           : t \in TypeLists }
    \cup { [op |-> "expect_validate_caller_not_type",
            e |-> [expectations EXCEPT !.expect_validate_caller_not_type = Some(t)]]
           : t \in TypeLists }

\* A test that registers validation expectations of several kinds before a call.
expect_validate_callers ==
    \E r \in ValidationRegistrations :
        /\ AtTest
        /\ Registered(r.e, new_actor_addr) = ValidationsRegistered(r.e)
        /\ ValidationsRegistered(r.e) <= MaxValidations
        /\ MockConsumes(OkR(r.op, 0, {}, NoArg), r.e)

\* A test of validations: the state is set and the test registers up to
\* MaxValidations validation expectations.
InitValidations ==
    /\ InitMock
    /\ state = CborCid(0)
    /\ new_actor_addr = None

NextValidations == NextMock \/ expect_validate_callers

SpecValidations == InitValidations /\ [][NextValidations]_vars

----------------------------------------------------------------------------
(* Properties *)

\* The state root of the runtime under execution.
StateRoot == IF impl = "fvm" THEN root ELSE state

ValidateOps == {"validate_immediate_caller_accept_any", "validate_immediate_caller_is",
                "validate_immediate_caller_type"}

\* transaction was called: it was rejected at once, or its closure is entered.
TxnCalled == last.op = "transaction" /\ last.frame = NoFrame
\* transaction returned after its closure ran; last.frame is the closure's frame.
TxnReturned == last.op = "transaction" /\ last.frame.kind = "closure"

\* C1: in FvmRuntime a validation called while caller_validated is true returns
\* assertion_failed and leaves caller_validated true.
C1_SecondValidationFails ==
    (impl = "fvm" /\ last.op \in ValidateOps /\ pre.caller_validated)
        => /\ last.kind = "err"
           /\ last.code = USR_ASSERTION_FAILED
           /\ caller_validated

C1_Witness ==
    /\ impl = "fvm"
    /\ last.op = "validate_immediate_caller_is"
    /\ pre.caller_validated
    /\ last.kind = "err"

\* C2: when the method returns success with caller_validated false the invocation
\* aborts with USR_ASSERTION_FAILED, "failed to validate caller", and no return
\* block; the normal return is reached only with caller_validated true.
C2_TrampolinePostCondition ==
    /\ (impl = "fvm" /\ last.op = "invoke_method" /\ last.kind = "ok" /\ ~caller_validated)
          => exit = Abort(USR_ASSERTION_FAILED, "failed to validate caller")
    /\ exit.kind = "return" => caller_validated
    /\ exit.kind = "abort" => exit.block = "none"

C2_Witness ==
    /\ last.op = "invoke_method"
    /\ last.kind = "ok"
    /\ ~caller_validated
    /\ exit.kind = "abort"

\* C3: in both implementations, when the closure returns an error the state root
\* after transaction() is the root before it, nothing is written, and
\* transaction() returns the closure's error.
C3_FailedTransactionKeepsRoot ==
    (TxnReturned /\ last.arg.tag = "err")
        => /\ StateRoot = last.frame.entry
           /\ last.sys \cap {"put", "set_root"} = {}
           /\ last.kind = "err"
           /\ last.code = last.arg.n

\* C4: in both implementations, when the closure returns Ok(r) the state root after
\* transaction() is the identifier of the state as the closure left it,
\* transaction() returns Ok(r), and a read of the state yields that state.
C4_SuccessfulTransactionCommits ==
    (TxnReturned /\ last.arg.tag = "ok")
        => /\ StateRoot = CborCid(last.frame.st)
           /\ last.kind = "ok"
           /\ last.ret = last.arg.n
           /\ Has(store, StateRoot)
           /\ CanDecode(Get(store, StateRoot))
           /\ from_slice(Get(store, StateRoot)) = last.frame.st

C4_Witness ==
    /\ TxnReturned
    /\ last.arg.tag = "ok"
    /\ CborCid(last.frame.st) # last.frame.entry
    /\ StateRoot # pre.root
    /\ impl = "fvm"

\* C5: FvmRuntime::transaction called while in_transaction is true fails with
\* assertion_failed before the root is read or a blob is fetched.
C5_FvmNestedTransactionRejected ==
    (impl = "fvm" /\ TxnCalled /\ pre.in_transaction)
        => /\ last.kind = "err"
           /\ last.code = USR_ASSERTION_FAILED
           /\ last.sys = {}

\* C6: MockRuntime::transaction called while in_transaction is true returns
\* assertion_failed without a store access, leaves the state root unchanged, and
\* in_transaction stays true for as long as the outer closure runs.
C6_MockNestedTransactionRejected ==
    /\ (impl = "mock" /\ TxnCalled /\ pre.in_transaction)
          => /\ last.kind = "err"
             /\ last.code = USR_ASSERTION_FAILED
             /\ last.sys = {}
             /\ state = pre.state
             /\ in_transaction
    /\ (impl = "mock" /\ InClosure /\ phase = "test") => in_transaction

C6_Witness ==
    /\ impl = "mock"
    /\ TxnCalled
    /\ pre.in_transaction
    /\ last.kind = "err"
    /\ InClosure

\* C7: in both implementations send, create_actor and delete_actor called while
\* in_transaction is true return assertion_failed, with no change of the balance
\* or of an expectation and with no host call.
C7_SideEffectsRejectedInTransaction ==
    (last.op \in {"send", "create_actor", "delete_actor"} /\ pre.in_transaction)
        => /\ last.kind = "err"
           /\ last.code = USR_ASSERTION_FAILED
           /\ balance = pre.balance
           /\ expectations = pre.expectations
           /\ last.sys = {}

\* C8: in both implementations new_actor_address called while in_transaction is
\* true fails with assertion_failed and does not consume new_actor_addr.
C8_NewActorAddressRejectedInTransaction ==
    (last.op = "new_actor_address" /\ pre.in_transaction)
        => /\ last.kind = "err"
           /\ last.code = USR_ASSERTION_FAILED
           /\ new_actor_addr = pre.new_actor_addr

\* C9: FvmRuntime::send, when the host send returns remote exit code c: Ok with the
\* return data when c is success; otherwise an error with USR_UNSPECIFIED for
\* SYS_MISSING_RETURN, SYS_ILLEGAL_INSTRUCTION and SYS_ILLEGAL_EXIT_CODE,
\* USR_ASSERTION_FAILED for any other system code, and c itself for the rest.
C9_ExitCodeNormalization ==
    (impl = "fvm" /\ last.op = "send" /\ last.arg.tag = "exit")
        => LET c == last.arg.n IN
           IF c = OK
           THEN last.kind = "ok" /\ last.ret = last.arg.data
           ELSE /\ last.kind = "err"
                /\ last.code =
                     IF c \in {SYS_MISSING_RETURN, SYS_ILLEGAL_INSTRUCTION,
                               SYS_ILLEGAL_EXIT_CODE}
                     THEN USR_UNSPECIFIED
                     ELSE IF c < FIRST_USER_EXIT_CODE THEN USR_ASSERTION_FAILED ELSE c

C9_Witness ==
    /\ impl = "fvm"
    /\ last.op = "send"
    /\ last.arg = Arg("exit", SYS_ILLEGAL_INSTRUCTION, 0)
    /\ last.code = USR_UNSPECIFIED

\* C10: whatever the host send did, an error FvmRuntime::send returns carries a
\* user-tier exit code, and never the host's error number.
C10_SendErrorsAreUserTier ==
    (impl = "fvm" /\ last.op = "send" /\ last.kind = "err")
        => /\ last.code >= FIRST_USER_EXIT_CODE
           /\ last.arg.tag = "errno" => last.code # last.arg.n

C10_Witness ==
    /\ impl = "fvm"
    /\ last.op = "send"
    /\ last.kind = "err"
    /\ last.arg.tag = "errno"
    /\ last.arg.n = ErrLimitExceeded

\* A send of MockRuntime that passed require_in_call and the in_transaction test
\* and did not panic: its arguments are in last.arg.
MockSendDone ==
    /\ impl = "mock"
    /\ last.op = "send"
    /\ last.kind # "panic"
    /\ pre.in_call
    /\ ~pre.in_transaction

\* C11: FvmRuntime::send, when the send syscall fails with error number e, returns
\* unspecified for NotFound, insufficient_funds for InsufficientFunds and
\* assertion_failed for LimitExceeded and for every other error number.
C11_SyscallErrorClassification ==
    (impl = "fvm" /\ last.op = "send" /\ last.arg.tag = "errno")
        => /\ last.kind = "err"
           /\ last.code =
                IF last.arg.n = ErrNotFound THEN USR_UNSPECIFIED
                ELSE IF last.arg.n = ErrInsufficientFunds THEN USR_INSUFFICIENT_FUNDS
                ELSE USR_ASSERTION_FAILED

C11_Witness ==
    /\ impl = "fvm"
    /\ last.op = "send"
    /\ last.arg.tag = "errno"
    /\ last.arg.n = ErrInsufficientFunds
    /\ last.code = USR_INSUFFICIENT_FUNDS

\* C12: a MockRuntime::send whose value exceeds the balance fails with
\* SYS_SENDER_STATE_INVALID, leaves the balance unchanged and does not consume the
\* expectation, which is still at the head of expect_sends.
C12_InsufficientBalanceKeepsExpectation ==
    (MockSendDone /\ last.arg.n > pre.balance)
        => /\ last.kind = "err"
           /\ last.code = SYS_SENDER_STATE_INVALID
           /\ balance = pre.balance
           /\ expectations.expect_sends = pre.expectations.expect_sends

\* C13: the balance of MockRuntime, non-negative at the start, is never negative
\* after any sequence of sends; a send whose value exceeds the running balance
\* fails with SYS_SENDER_STATE_INVALID and leaves the balance as it was.
C13_BalanceConservation ==
    impl = "mock"
        => /\ balance >= 0
           /\ (MockSendDone /\ last.arg.n > pre.balance)
                 => /\ last.kind = "err"
                    /\ last.code = SYS_SENDER_STATE_INVALID
                    /\ balance = pre.balance
           /\ (last.op = "send" /\ last.kind = "panic") => balance = pre.balance

C13_Witness ==
    /\ MockSendDone
    /\ last.code = SYS_SENDER_STATE_INVALID
    /\ pre.balance > 0
    /\ pre.balance < MaxBalance
    /\ balance = pre.balance

\* C14: a send of MockRuntime is checked against the head of expect_sends, the
\* oldest expectation expect_send queued: with an empty queue, or with a
\* destination, method, params or value that differs from the head's, the test
\* panics; a send that returns has matched the head and removed it, and
\* expect_send adds at the tail.
C14_SendsMatchedInFifoOrder ==
    /\ (impl = "mock" /\ last.op = "send" /\ pre.in_call /\ ~pre.in_transaction)
          => LET q == pre.expectations.expect_sends IN
             /\ q = << >> => last.kind = "panic"
             /\ last.kind # "panic"
                   => /\ q # << >>
                      /\ Head(q).to = last.arg.to
                      /\ Head(q).method = last.arg.method
                      /\ Head(q).params = last.arg.params
                      /\ Head(q).value = last.arg.n
                      /\ expectations.expect_sends = Tail(q)
    /\ (impl = "mock" /\ last.op = "expect_send")
          => LET q == pre.expectations.expect_sends
                 r == expectations.expect_sends
             IN /\ Len(r) = Len(q) + 1
                /\ SubSeq(r, 1, Len(q)) = q

C14_Witness ==
    /\ MockSendDone
    /\ last.kind = "ok"
    /\ Len(pre.expectations.expect_sends) = 2
    /\ pre.expectations.expect_sends[1].value # pre.expectations.expect_sends[2].value
    /\ expectations.expect_sends = << pre.expectations.expect_sends[2] >>

\* C15: a matched send of MockRuntime whose value does not exceed the balance
\* debits the balance by exactly the value and returns Ok(send_return) when the
\* expectation's exit code is OK, and otherwise an error with exactly that code.
C15_MatchedSendResult ==
    (MockSendDone /\ last.arg.n <= pre.balance)
        => LET expected_msg == Head(pre.expectations.expect_sends) IN
           /\ balance = pre.balance - last.arg.n
           /\ IF expected_msg.exit_code = OK
              THEN last.kind = "ok" /\ last.ret = expected_msg.send_return
              ELSE last.kind = "err" /\ last.code = expected_msg.exit_code

C15_Witness ==
    /\ MockSendDone
    /\ last.kind = "err"
    /\ last.code = SYS_ILLEGAL_INSTRUCTION
    /\ last.arg.n > 0
    /\ balance = pre.balance - last.arg.n

\* C16: verify() panics whenever an expectation of any kind is registered and not
\* consumed (validate-caller-any, -address, -type, -not-type, sends, create-actor,
\* delete-actor, verify-signature, gas-charge), and passes only when all are empty.
C16_VerifyFailsOnAnyLeftover ==
    (impl = "mock" /\ last.op = "verify")
        => (last.kind = "ok" <=> pre.expectations = NoExpectations)

\* C17: when MockRuntime::call returns an error the state root after it is the
\* state root before it, whatever create or transactions ran in the invocation;
\* when call returns Ok the state root is the one the invocation left.
C17_FailedCallRollsBack ==
    (impl = "mock" /\ last.op = "call" /\ last.kind \in {"ok", "err"})
        => IF last.kind = "err"
           THEN state = last.frame.entry
           ELSE state = pre.state

C17_Witness ==
    /\ impl = "mock"
    /\ last.op = "call"
    /\ last.kind = "err"
    /\ last.frame.entry = None
    /\ pre.state # None
    /\ state = None

\* The operations of MockRuntime that C18 names.
GuardedOps == ValidateOps \cup {"create", "transaction", "send", "create_actor",
                                "delete_actor", "new_actor_address", "charge_gas",
                                "message"}

\* C18: every operation of MockRuntime that mutates the runtime, and message(),
\* panics when called while in_call is false, and changes nothing.
C18_InCallGuard ==
    (impl = "mock" /\ last.op \in GuardedOps /\ ~pre.in_call)
        => /\ last.kind = "panic"
           /\ state = pre.state
           /\ balance = pre.balance
           /\ expectations = pre.expectations
           /\ new_actor_addr = pre.new_actor_addr
           /\ in_transaction = pre.in_transaction

\* C19: create returns illegal_state and leaves the root unchanged when a root
\* exists (MockRuntime: state is Some; FvmRuntime: the root is not the empty
\* array's identifier); otherwise it sets the root to the identifier of the
\* initial state it was given.
C19_CreateAtMostOnce ==
    (last.op = "create")
        => LET before == IF impl = "fvm" THEN pre.root ELSE pre.state
               exists == IF impl = "fvm" THEN before # EMPTY_ARR_CID ELSE before # None
           IN IF exists
              THEN /\ last.kind = "err"
                   /\ last.code = USR_ILLEGAL_STATE
                   /\ StateRoot = before
              ELSE /\ last.kind = "ok"
                   /\ StateRoot = CidOf(to_vec(last.arg.n))

C19_Witness ==
    /\ impl = "fvm"
    /\ last.op = "create"
    /\ last.kind = "err"
    /\ pre.root # EMPTY_ARR_CID
    /\ root = pre.root

C21_CallerValidatedMonotone ==
    /\ []((impl = "fvm" /\ last.op = "trampoline") => ~caller_validated)
    /\ [][impl = "fvm"
            => /\ caller_validated => caller_validated'
               /\ caller_validated' # caller_validated
                     => last'.op \in ValidateOps /\ last'.kind = "ok"]_vars

C21_Witness ==
    /\ impl = "fvm"
    /\ caller_validated
    /\ pre.caller_validated
    /\ TxnReturned
    /\ last.kind = "ok"

\* The validations of MockRuntime.
MockValidateOps == ValidateOps \cup {"validate_immediate_caller_not_type"}

\* C22: a validation of MockRuntime panics when no expectation of its kind is
\* registered or when the list it is given differs from the registered one; a
\* validation that returns has consumed the expectation, so that no second call
\* can use it.
C22_ValidationNeedsExpectation ==
    (impl = "mock" /\ last.op \in MockValidateOps)
        => LET e == pre.expectations
               f == expectations
           IN CASE last.op = "validate_immediate_caller_accept_any" ->
                     /\ ~e.expect_validate_caller_any => last.kind = "panic"
                     /\ last.kind # "panic" => ~f.expect_validate_caller_any
                [] last.op = "validate_immediate_caller_is" ->
                     /\ e.expect_validate_caller_addr = None => last.kind = "panic"
                     /\ last.kind # "panic"
                           => /\ e.expect_validate_caller_addr = Some(last.arg.data)
                              /\ f.expect_validate_caller_addr = None
                [] last.op = "validate_immediate_caller_type" ->
                     /\ e.expect_validate_caller_type = None => last.kind = "panic"
                     /\ last.kind # "panic"
                           => /\ e.expect_validate_caller_type = Some(last.arg.data)
                              /\ f.expect_validate_caller_type = None
                [] last.op = "validate_immediate_caller_not_type" ->
                     /\ e.expect_validate_caller_not_type = None => last.kind = "panic"
                     /\ last.kind # "panic"
                           => /\ e.expect_validate_caller_not_type = Some(last.arg.data)
                              /\ f.expect_validate_caller_not_type = None

\* C24: when the method returns an error the invocation aborts with that error's
\* exit code and message, whether or not the caller was validated, and no return
\* block is written.
C24_TrampolineErrorPath ==
    (impl = "fvm" /\ last.op = "invoke_method" /\ last.kind = "err")
        => /\ exit.kind = "abort"
           /\ exit.code = last.code
           /\ exit.msg = "err.msg"
           /\ exit.block = "none"

C24_Witness ==
    /\ impl = "fvm"
    /\ last.op = "invoke_method"
    /\ last.kind = "err"
    /\ last.code = USR_FORBIDDEN
    /\ ~caller_validated
    /\ exit.code = USR_FORBIDDEN

\* C25: every invocation through the trampoline in which no validation returned
\* Ok ends with USR_ASSERTION_FAILED, whatever the method returned.
C25_UnvalidatedEndsAssertionFailed ==
    (impl = "fvm" /\ phase = "done" /\ ~caller_validated)
        => /\ exit.kind = "abort"
           /\ exit.code = USR_ASSERTION_FAILED

\* C25, amended: an invocation in which no validation returned Ok never returns
\* normally; it aborts with the method's own exit code when the method returned an
\* error, and with USR_ASSERTION_FAILED when it returned Ok or panicked.
C25_UnvalidatedEndsInAbort ==
    (impl = "fvm" /\ phase = "done" /\ ~caller_validated)
        => /\ exit.kind = "abort"
           /\ exit.code = IF last.op = "invoke_method" /\ last.kind = "err"
                          THEN last.code
                          ELSE USR_ASSERTION_FAILED

C25_Witness ==
    /\ impl = "fvm"
    /\ phase = "done"
    /\ ~caller_validated
    /\ last.op = "invoke_method"
    /\ last.kind = "err"
    /\ exit.code = USR_ILLEGAL_STATE

\* C26: a panic in a trampoline invocation ends it with USR_ASSERTION_FAILED, and
\* the state root stays the one last committed: what a running closure wrote to
\* its state is not written.
C26_PanicToAbort ==
    (impl = "fvm" /\ last.kind = "panic")
        => /\ phase = "done"
           /\ exit.kind = "abort"
           /\ exit.code = USR_ASSERTION_FAILED
           /\ root = pre.root

C26_Witness ==
    /\ impl = "fvm"
    /\ last.kind = "panic"
    /\ InClosure
    /\ CborCid(Top.st) # root
    /\ exit.code = USR_ASSERTION_FAILED

\* A transaction closure is running.
HasClosure == \E i \in 1..Len(stack) : stack[i].kind = "closure"

\* C27: in both implementations in_transaction is true for the whole time the
\* closure of a transaction runs, false when the transaction returns, whatever
\* the closure returned, and false outside any transaction.
C27_TransactionScope ==
    /\ in_transaction <=> HasClosure
    /\ (TxnReturned /\ pre.depth = 2) => ~in_transaction

\* The operations of MockRuntime that use up an expectation.
ExpectingOps == MockValidateOps \cup {"send", "create_actor", "delete_actor",
                                      "charge_gas", "verify_signature"}

\* C28: reset() empties every expectation slot and queue and changes neither the
\* state root nor the balance; verify() passes on what reset left, and a call that
\* needs an expectation finds none.
C28_ResetClearsExpectations ==
    /\ (impl = "mock" /\ last.op = "reset")
          => /\ ~expectations.expect_validate_caller_any
             /\ expectations.expect_validate_caller_addr = None
             /\ expectations.expect_validate_caller_type = None
             /\ expectations.expect_validate_caller_not_type = None
             /\ expectations.expect_sends = << >>
             /\ expectations.expect_create_actor = None
             /\ expectations.expect_delete_actor = None
             /\ expectations.expect_verify_sigs = << >>
             /\ expectations.expect_gas_charge = << >>
             /\ state = pre.state
             /\ balance = pre.balance
    /\ (impl = "mock" /\ last.op = "verify" /\ pre.expectations = NoExpectations)
          => last.kind = "ok"
    /\ (impl = "mock" /\ last.op \in ExpectingOps /\ pre.expectations = NoExpectations)
          => \/ last.kind = "panic"
             \/ /\ last.op \in {"send", "create_actor", "delete_actor"}
                /\ pre.in_transaction
                /\ last.kind = "err"
                /\ last.code = USR_ASSERTION_FAILED

C28_Witness ==
    /\ impl = "mock"
    /\ last.op = "reset"
    /\ pre.expectations.expect_validate_caller_not_type # None
    /\ expectations = NoExpectations

\* C30: in both implementations, while a transaction closure runs the state root
\* is the root the transaction started from, and state() yields the state at that
\* root.
C30_UncommittedWritesInvisible ==
    InClosure
        => /\ StateRoot = Top.entry
           /\ (last.op = "state" /\ last.kind = "ok")
                 => last.ret = from_slice(Get(store, Top.entry))

\* C23: within one MockRuntime::call at most one validation returns Ok, whatever
\* the method does and whatever expectations the test registered.
C23_MockValidatesOnce ==
    (impl = "mock" /\ stack # << >> /\ stack[1].kind = "method")
        => stack[1].validated <= 1

\* An invocation of Constructor or Persist of the example actor has returned.
ExampleInvoked ==
    /\ last.op \in {"invoke_method", "call"}
    /\ last.kind \in {"ok", "err"}
    /\ last.frame.method \in {Constructor, Persist}

C31_StateRootNeverDangling ==
    (impl = "mock" /\ state # None) => Has(store, state)

C31_Witness ==
    /\ impl = "mock"
    /\ last.op = "call"
    /\ last.kind = "err"
    /\ state # None
    /\ pre.state # state
    /\ Has(store, state)

\* C32: an expectation is consumed at most once. charge_gas and verify_signature
\* take the entry registered first, and panic when the queue is empty or the
\* entry differs from the call; create_actor and delete_actor take the one slot,
\* so a call that finds the slot empty never returns Ok and panics.
C32_ConsumptionDiscipline ==
    impl = "mock" =>
        LET e == pre.expectations
            f == expectations
        IN /\ last.op = "charge_gas"
                => IF e.expect_gas_charge = << >>
                   THEN last.kind = "panic" /\ f = e
                   ELSE /\ f = [e EXCEPT !.expect_gas_charge = Tail(@)]
                        /\ last.kind # "panic"
                              => /\ last.kind = "ok"
                                 /\ last.arg.n = Head(e.expect_gas_charge)
           /\ last.op = "verify_signature"
                => IF e.expect_verify_sigs = << >>
                   THEN last.kind = "panic" /\ f = e
                   ELSE /\ f = [e EXCEPT !.expect_verify_sigs = Tail(@)]
                        /\ last.kind # "panic"
                              => /\ last.kind = Head(e.expect_verify_sigs).result
                                 /\ last.arg.n = Head(e.expect_verify_sigs).sig
           /\ last.op = "create_actor"
                => /\ last.kind = "ok"
                        => /\ e.expect_create_actor = Some(last.arg.data)
                           /\ f = [e EXCEPT !.expect_create_actor = None]
                   /\ e.expect_create_actor = None
                        => /\ last.kind # "ok"
                           /\ ~pre.in_transaction => last.kind = "panic"
                           /\ f = e
           /\ last.op = "delete_actor"
                => /\ last.kind = "ok"
                        => /\ e.expect_delete_actor = Some(last.arg.data)
                           /\ f = [e EXCEPT !.expect_delete_actor = None]
                   /\ e.expect_delete_actor = None
                        => /\ last.kind # "ok"
                           /\ ~pre.in_transaction => last.kind = "panic"
                           /\ f = e

\* Of two queued gas charges the one registered first is taken.
C32_Witness ==
    /\ impl = "mock"
    /\ last.op = "charge_gas"
    /\ last.kind = "ok"
    /\ pre.expectations.expect_gas_charge = << 1, 2 >>
    /\ last.arg.n = 1
    /\ expectations.expect_gas_charge = << 2 >>

\* C33: validate_immediate_caller_not_type of MockRuntime, with an expectation
\* registered, returns forbidden when the type of the caller is one of the types
\* it is given, and Ok when it is none of them.
C33_NotTypeChecksCaller ==
    (impl = "mock" /\ last.op = "validate_immediate_caller_not_type"
                   /\ last.kind # "panic")
        => IF msg.code \in last.arg.data
           THEN last.kind = "err" /\ last.code = USR_FORBIDDEN
           ELSE last.kind = "ok"

\* C34: in FvmRuntime in_transaction is true at every point while the closure of
\* a transaction runs, so that send, create_actor and delete_actor called inside
\* the closure return assertion_failed, also after a transaction called by the
\* closure has returned.
C34_FvmClosureRejectsSideEffects ==
    impl = "fvm"
        => /\ InClosure => in_transaction
           /\ (last.op \in {"send", "create_actor", "delete_actor"} /\ InClosure)
                 => /\ last.kind = "err"
                    /\ last.code = USR_ASSERTION_FAILED
                    /\ last.sys = {}

\* C35: when MockRuntime::call returns an error only the state root is put back:
\* the balance, the expectations and new_actor_addr stay as the invocation left
\* them.
C35_RollbackRestoresOnlyState ==
    (impl = "mock" /\ last.op = "call" /\ last.kind = "err")
        => /\ state = last.frame.entry
           /\ balance = pre.balance
           /\ expectations = pre.expectations
           /\ new_actor_addr = pre.new_actor_addr

\* A failed call in which a send debited the balance.
C35_Witness ==
    /\ impl = "mock"
    /\ last.op = "call"
    /\ last.kind = "err"
    /\ balance < last.frame.balance
    /\ state = last.frame.entry

\* The body of call or call_fn is running.
InBody == stack # << >> /\ stack[1].kind \in {"method", "call_fn"}

C37_ForbiddenConsumesExpectation ==
    impl = "mock"
        => LET e == pre.expectations
               f == expectations
           IN /\ last.op = "validate_immediate_caller_is"
                   => /\ last.kind = "err"
                           => /\ last.code = USR_FORBIDDEN
                              /\ f = [e EXCEPT !.expect_validate_caller_addr = None]
                      /\ e.expect_validate_caller_addr = None => last.kind = "panic"
              /\ last.op = "validate_immediate_caller_type"
                   => /\ last.kind = "err"
                           => /\ last.code = USR_FORBIDDEN
                              /\ f = [e EXCEPT !.expect_validate_caller_type = None]
                      /\ e.expect_validate_caller_type = None => last.kind = "panic"
              /\ last.op = "validate_immediate_caller_not_type"
                   => /\ last.kind = "err"
                           => /\ last.code = USR_FORBIDDEN
                              /\ f = [e EXCEPT !.expect_validate_caller_not_type = None]
                      /\ e.expect_validate_caller_not_type = None
                           => last.kind = "panic"
              /\ (last.op \in MockValidateOps /\ last.kind = "err"
                    /\ ValidationsRegistered(e) = Registered(e, None)
                    /\ ValidationsRegistered(e) = 1)
                   => VerifyPasses(f)

C37_Witness ==
    /\ impl = "mock"
    /\ last.op = "validate_immediate_caller_is"
    /\ last.kind = "err"
    /\ last.code = USR_FORBIDDEN
    /\ pre.expectations.expect_validate_caller_addr # None
    /\ expectations = NoExpectations

====
